---- MODULE Spec2Model ----
(***************************************************************************)
(* Model of robot_builder.py: the Builder pattern with a Robot product,    *)
(* two concrete builders and a Director.  Python objects live in a heap    *)
(* and are referred to by identity; attribute lookup on Traversal and      *)
(* DetectionSystems instances falls back to the class attributes, as in    *)
(* Python.                                                                 *)
(***************************************************************************)
EXTENDS Naturals, Sequences, FiniteSets, TLC

VARIABLES heap, held, out, last

vars == <<heap, held, out, last>>

\* Bounds of the model: the number of builders the client creates, and the
\* number it creates when it also prints Robots and keeps one in a variable.
MaxBuilders == 2

MaxRefBuilders == 1

(***************************************************************************)
(* Values.  A Python value is None or a literal; literals are wrapped in a *)
(* one-element tuple so that None differs from every literal.              *)
(***************************************************************************)
None == << >>

Some(v) == <<v>>

\* The string literals of the builders, as character sequences.
BipedalRobot == <<"B","i","p","e","d","a","l"," ","R","o","b","o","t">>

RobotOnWheels == <<"R","o","b","o","t"," ","o","n"," ","W","h","e","e","l","s">>

Kinds == {"AndroidBuilder", "AutonomousCarBuilder"}

StepNames == {"get_type", "build_traversal", "build_detection_system"}

(***************************************************************************)
(* Classes with class-level attributes and their instances.  A store is    *)
(* [cls |-> the class attributes, inst |-> the instances' __dict__s].      *)
(***************************************************************************)
\* class Traversal: leg = None; arm = None; wing = None; wheel = None
Traversal == [leg |-> None, arm |-> None, wing |-> None, wheel |-> None]

\* class DetectionSystems: camera = None; infrared = None
DetectionSystems == [camera |-> None, infrared |-> None]

EmptyDict == [f \in {} |-> None]

\* Traversal() / DetectionSystems(): a new instance with an empty __dict__.
NewInstance(store) == [store EXCEPT !.inst = Append(@, EmptyDict)]

\* Mutant: the assignment lands on the class attribute instead of the instance.
SetAttrOnClass(store, id, f, v) == [store EXCEPT !.cls[f] = v]

\* obj.f = v : writes the instance's __dict__.
SetAttr(store, id, f, v) ==
  [store EXCEPT !.inst[id] = [g \in DOMAIN @ \cup {f} |-> IF g = f THEN v ELSE @[g]]]

\* obj.f : the instance's __dict__ first, then the class attribute.
GetAttr(store, id, f) ==
  IF f \in DOMAIN store.inst[id] THEN store.inst[id][f] ELSE store.cls[f]

(***************************************************************************)
(* Robot                                                                   *)
(***************************************************************************)
\* Robot.__init__: the new Robot is the last element of h.robots.
Robot_init(h) ==
  LET t == NewInstance(h.traversal)
      d == NewInstance(h.detection)
  IN [h EXCEPT !.traversal = t, !.detection = d,
               !.robots = Append(@, [product_type |-> None,
                                     traversal |-> Len(t.inst),
                                     detection_systems |-> Len(d.inst)])]

\* Robot.set_type
Robot_set_type(h, r, p_type) == [h EXCEPT !.robots[r].product_type = p_type]

\* The fields of Robot r as a reader sees them.
RobotView(h, r) ==
  [product_type |-> h.robots[r].product_type,
   arm      |-> GetAttr(h.traversal, h.robots[r].traversal, "arm"),
   leg      |-> GetAttr(h.traversal, h.robots[r].traversal, "leg"),
   wheel    |-> GetAttr(h.traversal, h.robots[r].traversal, "wheel"),
   wing     |-> GetAttr(h.traversal, h.robots[r].traversal, "wing"),
   camera   |-> GetAttr(h.detection, h.robots[r].detection_systems, "camera"),
   infrared |-> GetAttr(h.detection, h.robots[r].detection_systems, "infrared")]

(***************************************************************************)
(* Robot.__str__                                                           *)
(***************************************************************************)
LowerCase == <<"a","b","c","d","e","f","g","h","i","j","k","l","m",
               "n","o","p","q","r","s","t","u","v","w","x","y","z">>

UpperCase == <<"A","B","C","D","E","F","G","H","I","J","K","L","M",
               "N","O","P","Q","R","S","T","U","V","W","X","Y","Z">>

\* The upper-case letter of each lower-case letter.
UpperMap ==
  [c \in {LowerCase[i] : i \in DOMAIN LowerCase} |->
     UpperCase[CHOOSE i \in DOMAIN LowerCase : LowerCase[i] = c]]

\* A character other than a lower-case letter is left as it is.
UpperChar(c) == IF c \in DOMAIN UpperMap THEN UpperMap[c] ELSE c

\* str.upper()
Upper(s) == [i \in DOMAIN s |-> UpperChar(s[i])]

\* The characters of s as one string.
RECURSIVE Join(_)
Join(s) == IF s = << >> THEN "" ELSE Head(s) \o Join(Tail(s))

\* "{0}".format(v) for None and for integers.
Format(v) == IF v = None THEN "None" ELSE ToString(v[1])

\* Python truth value of None / True / False.
Truthy(v) == v # None /\ v[1] = TRUE

Phrase(v) == IF Truthy(v) THEN "There are" ELSE "There aren't any"

\* Mutant: __str__ stores the upper-cased type back into the Robot.
Robot_str_storing(h, r) ==
  IF h.robots[r].product_type = None
    THEN [h |-> h, raised |-> TRUE, text |-> ""]
    ELSE [h |-> Robot_set_type(h, r, Some(Upper(h.robots[r].product_type[1]))),
          raised |-> FALSE,
          text |-> "\n" \o Join(Upper(h.robots[r].product_type[1]))]

\* Robot.__str__: [h |-> the heap afterwards, raised |-> whether it raised,
\* text |-> the string returned].  None.upper() raises AttributeError.
Robot_str(h, r) ==
  LET v == RobotView(h, r)
  IN IF v.product_type = None
       THEN [h |-> h, raised |-> TRUE, text |-> ""]
       ELSE [h |-> h, raised |-> FALSE,
             text |-> "\n" \o Join(Upper(v.product_type[1]))
                      \o "\nTraversal modules:"
                      \o "\n-" \o Format(v.arm) \o " arm(s)"
                      \o "\n-" \o Format(v.leg) \o " leg(s)"
                      \o "\n-" \o Format(v.wheel) \o " wheel(s)"
                      \o "\n-" \o Format(v.wing) \o " wing(s)"
                      \o "\nDetection systems:"
                      \o "\n-" \o Phrase(v.camera) \o " camera(s)"
                      \o "\n-" \o Phrase(v.infrared) \o " infrared(s)"]

(***************************************************************************)
(* Builders.  A builder is [kind, product |-> its Robot, steps |-> the     *)
(* build steps run on it since it was created or last reset].  A method    *)
(* returns [h |-> the heap afterwards, value |-> its return value].        *)
(***************************************************************************)
\* RobotBuilder.__init__ for a builder of class k.
RobotBuilder_init(h, k) ==
  LET h1 == Robot_init(h)
  IN [h1 EXCEPT !.builders =
        Append(@, [kind |-> k, product |-> Len(h1.robots), steps |-> {}])]

\* Mutant: reset clears the type of the Robot at hand instead of making a new one.
RobotBuilder_reset_in_place(h, b) ==
  [h |-> Robot_set_type(h, h.builders[b].product, None), value |-> None]

\* RobotBuilder.reset
RobotBuilder_reset(h, b) ==
  LET h1 == Robot_init(h)
  IN [h |-> [h1 EXCEPT !.builders[b].product = Len(h1.robots)], value |-> None]

\* Mutant: get_product hands out a copy of the Robot.
RobotBuilder_get_product_copy(h, b) ==
  LET p  == h.robots[h.builders[b].product]
      h1 == Robot_init(h)
  IN [h |-> [h1 EXCEPT !.robots[Len(h1.robots)].product_type = p.product_type,
                       !.traversal.inst[Len(h1.traversal.inst)] = h.traversal.inst[p.traversal],
                       !.detection.inst[Len(h1.detection.inst)] =
                          h.detection.inst[p.detection_systems]],
      value |-> Len(h1.robots)]

\* RobotBuilder.get_product
RobotBuilder_get_product(h, b) == [h |-> h, value |-> h.builders[b].product]

\* Mutant: get_type returns the label, as the Director expects, and sets nothing.
AndroidBuilder_get_type_returning(h, b) == [h |-> h, value |-> Some(BipedalRobot)]

\* AndroidBuilder.get_type
AndroidBuilder_get_type(h, b) ==
  [h |-> [h EXCEPT !.robots[h.builders[b].product].product_type = Some(BipedalRobot)],
   value |-> None]

\* AndroidBuilder.build_traversal
AndroidBuilder_build_traversal(h, b) ==
  LET t  == h.robots[h.builders[b].product].traversal
      s1 == SetAttr(h.traversal, t, "arm", Some(2))
      s2 == SetAttr(s1, t, "leg", Some(2))
  IN [h |-> [h EXCEPT !.traversal = s2], value |-> t]

\* Mutant: the Android gets the car's infrared as well.
AndroidBuilder_build_detection_system_infrared(h, b) ==
  LET d  == h.robots[h.builders[b].product].detection_systems
      s1 == SetAttr(h.detection, d, "camera", Some(TRUE))
      s2 == SetAttr(s1, d, "infrared", Some(TRUE))
  IN [h |-> [h EXCEPT !.detection = s2], value |-> d]

\* AndroidBuilder.build_detection_system
AndroidBuilder_build_detection_system(h, b) ==
  LET d  == h.robots[h.builders[b].product].detection_systems
      s1 == SetAttr(h.detection, d, "camera", Some(TRUE))
  IN [h |-> [h EXCEPT !.detection = s1], value |-> d]

\* Mutant: get_type starts a new Robot before it sets the type.
AutonomousCarBuilder_get_type_new_robot(h, b) ==
  LET h1 == Robot_init(h)
  IN [h |-> [h1 EXCEPT !.builders[b].product = Len(h1.robots),
                       !.robots[Len(h1.robots)].product_type = Some(RobotOnWheels)],
      value |-> None]

\* AutonomousCarBuilder.get_type
AutonomousCarBuilder_get_type(h, b) ==
  [h |-> [h EXCEPT !.robots[h.builders[b].product].product_type = Some(RobotOnWheels)],
   value |-> None]

\* Mutant: the car's traversal is the Android's, without wheels.
AutonomousCarBuilder_build_traversal_no_wheel(h, b) ==
  LET t  == h.robots[h.builders[b].product].traversal
      s1 == SetAttr(h.traversal, t, "arm", Some(2))
      s2 == SetAttr(s1, t, "leg", Some(2))
  IN [h |-> [h EXCEPT !.traversal = s2], value |-> t]

\* AutonomousCarBuilder.build_traversal
AutonomousCarBuilder_build_traversal(h, b) ==
  LET t  == h.robots[h.builders[b].product].traversal
      s1 == SetAttr(h.traversal, t, "arm", Some(2))
      s2 == SetAttr(s1, t, "leg", Some(2))
      s3 == SetAttr(s2, t, "wheel", Some(4))
  IN [h |-> [h EXCEPT !.traversal = s3], value |-> t]

\* AutonomousCarBuilder.build_detection_system
AutonomousCarBuilder_build_detection_system(h, b) ==
  LET d  == h.robots[h.builders[b].product].detection_systems
      s1 == SetAttr(h.detection, d, "camera", Some(TRUE))
      s2 == SetAttr(s1, d, "infrared", Some(TRUE))
  IN [h |-> [h EXCEPT !.detection = s2], value |-> d]

\* The method m of builder b, resolved on the builder's class.
Method(h, b, m) ==
  IF m = "reset" THEN RobotBuilder_reset(h, b)
  ELSE IF m = "get_product" THEN RobotBuilder_get_product(h, b)
  ELSE IF h.builders[b].kind = "AndroidBuilder"
    THEN CASE m = "get_type" -> AndroidBuilder_get_type(h, b)
           [] m = "build_traversal" -> AndroidBuilder_build_traversal(h, b)
           [] m = "build_detection_system" -> AndroidBuilder_build_detection_system(h, b)
    ELSE CASE m = "get_type" -> AutonomousCarBuilder_get_type(h, b)
           [] m = "build_traversal" -> AutonomousCarBuilder_build_traversal(h, b)
           [] m = "build_detection_system" -> AutonomousCarBuilder_build_detection_system(h, b)

\* builder.m(): runs the method.  The call is recorded in h.calls; the
\* builder's steps gain a build step and are emptied by reset.
Call(h, b, m) ==
  LET r == Method(h, b, m)
  IN [h |-> [r.h EXCEPT !.calls = Append(@, m),
                        !.builders[b].steps = IF m \in StepNames THEN @ \cup {m}
                                              ELSE IF m = "reset" THEN {} ELSE @],
      value |-> r.value]

(***************************************************************************)
(* Director                                                                *)
(***************************************************************************)
\* Mutant: construct builds in the same order but returns its local Robot.
Director_construct_local(h, b) ==
  LET h0 == Robot_init(h)
      robot == Len(h0.robots)
      c1 == Call(h0, b, "get_type")
      h1 == Robot_set_type(c1.h, robot, c1.value)
      c2 == Call(h1, b, "build_traversal")
      c3 == Call(c2.h, b, "build_detection_system")
      c4 == Call(c3.h, b, "get_product")
  IN [h |-> c4.h, value |-> robot, robot |-> robot, construct_type |-> c1.value]

\* Director.construct: [h, value |-> the Robot returned, robot |-> the local
\* Robot, construct_type |-> the local construct_type].
Director_construct(h, b) ==
  LET h0 == Robot_init(h)
      robot == Len(h0.robots)
      c1 == Call(h0, b, "get_type")
      h1 == Robot_set_type(c1.h, robot, c1.value)
      c2 == Call(h1, b, "build_traversal")
      c3 == Call(c2.h, b, "build_detection_system")
      c4 == Call(c3.h, b, "get_product")
  IN [h |-> c4.h, value |-> c4.value, robot |-> robot, construct_type |-> c1.value]

(***************************************************************************)
(* Reclaiming: a Robot no builder and no client reference points to is     *)
(* gone, as under Python's reference counting.  The Robots left are        *)
(* renumbered in the order of the references to them (each with its own    *)
(* Traversal and DetectionSystems), so that a Robot's number says nothing  *)
(* but which references share it.                                          *)
(***************************************************************************)
\* s without the elements that occur earlier in it, and without 0 (no reference).
RECURSIVE Distinct(_)
Distinct(s) ==
  IF s = << >> THEN << >>
  ELSE LET d == Distinct(SubSeq(s, 1, Len(s) - 1))
           x == s[Len(s)]
       IN IF x = 0 \/ \E i \in DOMAIN d : d[i] = x THEN d ELSE Append(d, x)

\* The references that keep Robots alive: the builders' products, then refs.
Roots(h, refs) == Distinct([i \in DOMAIN h.builders |-> h.builders[i].product] \o refs)

\* The new number of Robot r, given the roots.
Renumber(roots, r) ==
  IF r = 0 THEN 0 ELSE CHOOSE i \in DOMAIN roots : roots[i] = r

\* The heap with the Robots of roots only.
Collect(h, roots) ==
  [h EXCEPT
     !.robots = [i \in DOMAIN roots |->
                   [h.robots[roots[i]] EXCEPT !.traversal = i, !.detection_systems = i]],
     !.traversal.inst = [i \in DOMAIN roots |-> h.traversal.inst[h.robots[roots[i]].traversal]],
     !.detection.inst = [i \in DOMAIN roots |-> h.detection.inst[h.robots[roots[i]].detection_systems]],
     !.builders = [i \in DOMAIN h.builders |->
                     [h.builders[i] EXCEPT !.product = Renumber(roots, @)]]]

(***************************************************************************)
(* The client.  heap is the object graph; held is the client's variable x  *)
(* holding a Robot (with the builder it came from and whether that builder *)
(* was reset since); out is what the last operation printed or raised,     *)
(* and whether the operation before it printed the same Robot; last is     *)
(* the operation the client performed last: its name, its builder, how     *)
(* many of the build steps that builder had seen before it, the Robot it   *)
(* returned and whether that is the Director's local Robot.                *)
(***************************************************************************)
NoRef == [b |-> 0, ref |-> 0, resetSince |-> FALSE]

NoOutput == [rendered |-> FALSE, raised |-> FALSE, text |-> "", again |-> FALSE]

Builders == 1..Len(heap.builders)

\* The heap at the start of a client operation: the call record is fresh.
Fresh == [heap EXCEPT !.calls = << >>]

Init ==
  /\ heap = [robots |-> << >>,
             traversal |-> [cls |-> Traversal, inst |-> << >>],
             detection |-> [cls |-> DetectionSystems, inst |-> << >>],
             builders |-> << >>,
             calls |-> << >>]
  /\ held = NoRef
  /\ out = NoOutput
  /\ last = [op |-> "init", b |-> 0, pre |-> 0, ret |-> 0, local |-> FALSE]

\* The client's state after operation op on builder b that left heap h and
\* returned Robot r, with x holding Robot x.
After(h, op, b, r, local, x) ==
  LET roots == Roots(h, <<x.ref, r>>)
  IN /\ heap' = Collect(h, roots)
     /\ held' = [x EXCEPT !.ref = Renumber(roots, @)]
     /\ last' = [op |-> op, b |-> b,
                 pre |-> IF b \in Builders THEN Cardinality(heap.builders[b].steps) ELSE 0,
                 ret |-> Renumber(roots, r), local |-> local]

\* AndroidBuilder() / AutonomousCarBuilder()
New(k) ==
  /\ Len(heap.builders) < MaxBuilders
  /\ out' = NoOutput
  /\ After(RobotBuilder_init(Fresh, k), "new", Len(heap.builders) + 1, 0, FALSE, held)

\* b.get_type() / b.build_traversal() / b.build_detection_system()
Step(b, m) ==
  /\ out' = NoOutput
  /\ After(Call(Fresh, b, m).h, m, b, 0, FALSE, held)

\* b.reset()
Reset(b) ==
  /\ out' = NoOutput
  /\ After(Call(Fresh, b, "reset").h, "reset", b, 0, FALSE,
           IF held.b = b THEN [held EXCEPT !.resetSince = TRUE] ELSE held)

\* Director().construct(b)
Construct(b) ==
  LET c == Director_construct(Fresh, b)
  IN /\ out' = NoOutput
     /\ After(c.h, "construct", b, c.value, c.value = c.robot, held)

\* print(b.get_product())
Render(b) ==
  LET c == Call(Fresh, b, "get_product")
      s == Robot_str(c.h, c.value)
  IN /\ out' = [rendered |-> TRUE, raised |-> s.raised, text |-> s.text,
                again |-> last.op = "render" /\ last.b = b]
     /\ After(s.h, "render", b, c.value, FALSE, held)

\* x = b.get_product()
GetProduct(b) ==
  LET c == Call(Fresh, b, "get_product")
  IN /\ out' = NoOutput
     /\ After(c.h, "get_product", b, c.value, FALSE,
              [b |-> b, ref |-> c.value, resetSince |-> FALSE])

Next ==
  \/ \E k \in Kinds : New(k)
  \/ \E b \in Builders, m \in StepNames : Step(b, m)
  \/ \E b \in Builders : Reset(b)
  \/ \E b \in Builders : Construct(b)

Spec == Init /\ [][Next]_vars

\* The client also prints Robots and keeps one in x.
NextRef ==
  \/ \E k \in Kinds : Len(heap.builders) < MaxRefBuilders /\ New(k)
  \/ \E b \in Builders, m \in StepNames : Step(b, m)
  \/ \E b \in Builders : Reset(b)
  \/ \E b \in Builders : Construct(b)
  \/ \E b \in Builders : Render(b)
  \/ \E b \in Builders : GetProduct(b)

SpecRef == Init /\ [][NextRef]_vars

(***************************************************************************)
(* Properties                                                              *)
(***************************************************************************)
\* The Robot builder b owns, as a reader sees it.
View(b) == RobotView(heap, heap.builders[b].product)

KindOf(b) == heap.builders[b].kind

StepsOf(b) == heap.builders[b].steps

\* The archetype table of the specification (section 4.2).
Table(k) ==
  IF k = "AndroidBuilder"
    THEN [product_type |-> Some(<<"B","i","p","e","d","a","l"," ","R","o","b","o","t">>),
          arm |-> Some(2), leg |-> Some(2), wheel |-> None, wing |-> None,
          camera |-> Some(TRUE), infrared |-> None]
    ELSE [product_type |-> Some(<<"R","o","b","o","t"," ","o","n"," ","W","h","e","e","l","s">>),
          arm |-> Some(2), leg |-> Some(2), wheel |-> Some(4), wing |-> None,
          camera |-> Some(TRUE), infrared |-> Some(TRUE)]

\* A Robot with nothing set.
Unset ==
  [product_type |-> None, arm |-> None, leg |-> None, wheel |-> None, wing |-> None,
   camera |-> None, infrared |-> None]

\* For each class of builder, what one Director.construct on a fresh builder
\* of that class produces.
ConstructFresh ==
  [k \in Kinds |->
     LET h0 == [robots |-> << >>,
                traversal |-> [cls |-> Traversal, inst |-> << >>],
                detection |-> [cls |-> DetectionSystems, inst |-> << >>],
                builders |-> << >>,
                calls |-> << >>]
         c == Director_construct(RobotBuilder_init(h0, k), 1)
     IN RobotView(c.h, c.value)]

\* C1: the Robot Director.construct returns has a non-empty product_type, the
\* label of the builder's archetype in the table.
C1_TypeAfterConstruct ==
  last.op = "construct" =>
    LET t == RobotView(heap, last.ret).product_type
    IN /\ t # None
       /\ t[1] # << >>
       /\ t = Table(KindOf(last.b)).product_type

\* Director.construct has just returned for a builder of one archetype, after a
\* builder of the other archetype was built.
C1_Witness ==
  /\ last.op = "construct"
  /\ KindOf(last.b) = "AutonomousCarBuilder"
  /\ \E b \in Builders : KindOf(b) = "AndroidBuilder" /\ StepsOf(b) = StepNames

\* C2: after Director.construct on an AndroidBuilder that had seen no build step,
\* the Robot returned has arm 2, leg 2, camera true and wheel, wing and infrared
\* unset, whatever happened to other builders before.
C2_AndroidProduct ==
  (last.op = "construct" /\ last.pre = 0 /\ KindOf(last.b) = "AndroidBuilder") =>
    LET v == RobotView(heap, last.ret)
    IN /\ v.arm = Some(2) /\ v.leg = Some(2)
       /\ v.wheel = None /\ v.wing = None
       /\ v.camera = Some(TRUE) /\ v.infrared = None

\* A fresh AndroidBuilder has just been constructed, after an AutonomousCarBuilder
\* was created and built.
C2_Witness ==
  /\ last.op = "construct" /\ last.pre = 0
  /\ KindOf(last.b) = "AndroidBuilder"
  /\ \E b \in Builders : KindOf(b) = "AutonomousCarBuilder" /\ StepsOf(b) = StepNames

\* C3: after Director.construct on an AutonomousCarBuilder that had seen no build
\* step, the Robot returned has arm 2, leg 2, wheel 4, camera and infrared true,
\* and wing unset.
C3_CarProduct ==
  (last.op = "construct" /\ last.pre = 0 /\ KindOf(last.b) = "AutonomousCarBuilder") =>
    LET v == RobotView(heap, last.ret)
    IN /\ v.arm = Some(2) /\ v.leg = Some(2)
       /\ v.wheel = Some(4) /\ v.wing = None
       /\ v.camera = Some(TRUE) /\ v.infrared = Some(TRUE)

\* A fresh AutonomousCarBuilder has just been constructed.
C3_Witness ==
  /\ last.op = "construct" /\ last.pre = 0
  /\ KindOf(last.b) = "AutonomousCarBuilder"
  /\ View(last.b).wheel = Some(4)

\* C4: right after reset(), whenever it is called, the builder's Robot has
\* product_type and every part unset.
C4_ResetYieldsEmpty == last.op = "reset" => View(last.b) = Unset

\* reset() has just run on a builder that had seen every build step, while another
\* builder holds a built Robot.
C4_Witness ==
  /\ last.op = "reset" /\ last.pre = 3
  /\ \E b \in Builders : b # last.b /\ StepsOf(b) = StepNames

\* C5: Director.construct calls get_type, build_traversal, build_detection_system
\* once each in that order and then get_product, and returns the builder's own
\* Robot, not its local one.
C5_ConstructSequence ==
  last.op = "construct" =>
    /\ heap.calls = <<"get_type", "build_traversal", "build_detection_system", "get_product">>
    /\ last.ret = heap.builders[last.b].product
    /\ ~last.local

\* Director.construct has just returned, and its local Robot is gone.
C5_Witness ==
  /\ last.op = "construct"
  /\ Len(heap.calls) = 4
  /\ Len(heap.robots) = Len(heap.builders)

\* C6: printing a Robot never raises, whatever is unset in it.
C6_RenderNeverRaises == out.rendered => ~out.raised

\* C7: while the builder is not reset, the Robot get_product() returned shows
\* what every later build step on the builder did.
C7_SharedReference ==
  (held.ref # 0 /\ ~held.resetSince) => RobotView(heap, held.ref) = View(held.b)

\* x holds the Robot of a builder that was not reset, and a build step has just
\* set something on that builder.
C7_Witness ==
  /\ held.ref # 0 /\ ~held.resetSince
  /\ last.op \in StepNames /\ last.b = held.b /\ last.pre = 0
  /\ RobotView(heap, held.ref) # Unset

\* C8: an operation on one builder changes no field of another builder's Robot,
\* and the class defaults a new Robot starts from stay unset.
C8_Independent ==
  /\ [](heap.traversal.cls = Traversal /\ heap.detection.cls = DetectionSystems)
  /\ [][\A b \in Builders : last'.b # b => View(b)' = View(b)]_vars

\* A build step has just run on an AutonomousCarBuilder while an AndroidBuilder
\* holds a built Robot.
C8_Witness ==
  /\ last.op \in {"build_traversal", "build_detection_system"}
  /\ KindOf(last.b) = "AutonomousCarBuilder"
  /\ \E b \in Builders :
       /\ b # last.b /\ KindOf(b) = "AndroidBuilder" /\ StepsOf(b) = StepNames
       /\ View(b).wheel = None /\ View(b).infrared = None

\* C9: printing changes no Robot, Traversal or DetectionSystems, and printing
\* the same Robot again right away gives the same output.
C9_RenderReadOnly ==
  [][last'.op = "render" =>
       /\ heap'.robots = heap.robots
       /\ heap'.traversal = heap.traversal
       /\ heap'.detection = heap.detection
       /\ (out'.again => out' = [out EXCEPT !.again = TRUE])]_vars

\* A built Robot has just been printed a second time.
C9_Witness == out.rendered /\ out.again /\ ~out.raised

\* C10: a builder that has seen each build step at least once since it was
\* created or reset holds the Robot one Director.construct on a fresh builder of
\* its class produces; and while a builder is not reset, a field of its Robot
\* that is set keeps its value.
C10_OrderIndependent ==
  /\ [](\A b \in Builders : StepsOf(b) = StepNames => View(b) = ConstructFresh[KindOf(b)])
  /\ [][\A b \in Builders :
          (last'.op = "reset" /\ last'.b = b) \/
          LET v == View(b)
              w == View(b)'
          IN \A f \in DOMAIN Unset : v[f] # None => w[f] = v[f]]_vars

\* Director.construct has just run on a builder that had already seen every
\* build step.
C10_Witness == last.op = "construct" /\ last.pre = 3

====
